---- MODULE Spec2Model ----
(***************************************************************************)
(* Model of BluezDevice (Adafruit_BluefruitLE/bluez_dbus/device.py): one   *)
(* caller thread invoking the public operations of a device handle, and    *)
(* the D-Bus dispatch thread delivering PropertiesChanged notifications    *)
(* to _prop_changed concurrently with it.                                  *)
(***************************************************************************)
EXTENDS Integers, Sequences, FiniteSets, TLC

VARIABLES
    connected,      \* self._connected     (threading.Event flag)
    disconnected,   \* self._disconnected  (threading.Event flag)
    subscribed,     \* self._props._props_signal is still registered
    backup_rssi,    \* self.backup_rssi: <<>> while the attribute does not exist, else <<v>>
    op,             \* the operation the caller thread is in (or has just finished)
    pc,             \* position of the caller thread
    timeout_sec,    \* timeout_sec argument of the running call
    elapsed,        \* seconds spent in the running call's wait / poll loop
    accepted,       \* the bus's answer to the call's request: "na", "yes" or "no"
    steps,          \* what the running connect/disconnect has done so far, in order
    result,         \* outcome of the finished call
    seen,           \* the change the call waits for reached the handler after the call's clear
    seenAfterRequest, \* ... and did so after the call's request had been issued
    noise,          \* some other notification reached the handler after the call's clear
    staleAtCall,    \* the call's latch was set when the call began
    lastRssi,       \* value of the most recent successful RSSI read: <<>> or <<v>>
    prop,           \* _prop_get: name
    attempts,       \* _prop_get: reads made so far
    last_exception, \* _prop_get: last_exception ("None" or the error's name)
    errors,         \* _prop_get: the errors of the failed reads, in order
    sleeps,         \* time.sleep calls the running call has made
    readStatus,     \* how the call's latest property read ended
    readVal,        \* the value that read returned, for a scalar property
    keyPresent,     \* advertised_data: ServiceData had an entry for the key
    retval,         \* the list or byte string a call returned
    uuids,          \* advertised: uuids, the raw list its read of 'UUIDs' gave
    expected_services, \* discover: expected_services
    expected_chars,    \* discover: expected_chars
    actual_services,   \* discover: actual_services of the latest poll
    actual_chars,      \* discover: actual_chars of the latest poll
    polls,          \* discover: loop iterations begun
    delayed,        \* discover: seconds the bus queries themselves took
    busServices,    \* discover: the UUIDs the bus advertised at the latest poll
    busChars        \* discover: the characteristics the bus listed at the latest poll

vars == <<connected, disconnected, subscribed, backup_rssi, op, pc, timeout_sec,
          elapsed, accepted, steps, result, seen, seenAfterRequest, noise,
          staleAtCall, lastRssi, prop, attempts, last_exception, errors, sleeps,
          readStatus, readVal, keyPresent, retval, uuids, expected_services,
          expected_chars, actual_services, actual_chars, polls, delayed,
          busServices, busChars>>

\* The variables each group of actions leaves alone.
latches == <<connected, disconnected>>
handle == <<subscribed, backup_rssi, lastRssi>>
getter == <<prop, attempts, last_exception, errors, readStatus, readVal, keyPresent,
            retval, uuids>>
disc == <<expected_services, expected_chars, actual_services, actual_chars, polls,
          delayed, busServices, busChars>>
loc == <<getter, disc, sleeps>>
history == <<accepted, seen, seenAfterRequest, noise, staleAtCall>>

----------------------------------------------------------------------------
(* Bounds of the model. *)
MaxTimeout == 2     \* timeouts range over 0..MaxTimeout seconds
NumUUIDs == 2       \* distinct UUIDs a device can advertise or be asked for
MaxAdvertised == 2  \* length of the 'UUIDs' property
MaxQueryDelay == 1  \* seconds the queries of one discover poll can take

----------------------------------------------------------------------------
(* D-Bus values. *)
_INTERFACE == "org.bluez.Device1"
Interfaces == {_INTERFACE, "org.bluez.Adapter1"}
\* changed_props: a dict from some property names to their new values
PropVals(p) == IF p = "Connected" THEN {0, 1} ELSE {0}
ChangeSets ==
    UNION {{f \in [S -> {0, 1}] : \A p \in S : f[p] \in PropVals(p)} :
           S \in SUBSET {"Connected", "RSSI"}}
Timeouts == 0..MaxTimeout

\* Outcome of a call: nothing yet, a returned value or a raised exception.
NoResult == [kind |-> "none", val |-> ""]
Returned(v) == [kind |-> "return", val |-> v]
Raised(e) == [kind |-> "raise", val |-> e]
\* RuntimeError('Exceeded timeout waiting to connect to device!')
ConnectTimeout == Raised("ConnectTimeout")
\* RuntimeError('Exceeded timeout waiting to disconnect from device!')
DisconnectTimeout == Raised("DisconnectTimeout")
\* dbus.exceptions.DBusException raised by the request itself
TransportFailure == Raised("DBusException")

----------------------------------------------------------------------------
\* Mutant: the second test lacks "== 0", so any Connected change fires the
\* disconnected event.
prop_changed_AnyChangeDisconnects(iface, changed_props, c, d) ==
    IF iface # _INTERFACE
    THEN <<c, d>>
    ELSE LET c1 == IF "Connected" \in DOMAIN changed_props /\ changed_props["Connected"] = 1
                   THEN TRUE ELSE c
             d1 == IF "Connected" \in DOMAIN changed_props THEN TRUE ELSE d
         IN <<c1, d1>>

\* Mutant: the interface filter is missing.
prop_changed_NoFilter(iface, changed_props, c, d) ==
    LET c1 == IF "Connected" \in DOMAIN changed_props /\ changed_props["Connected"] = 1
              THEN TRUE ELSE c
        d1 == IF "Connected" \in DOMAIN changed_props /\ changed_props["Connected"] = 0
              THEN TRUE ELSE d
    IN <<c1, d1>>

(* _prop_changed: the two flags after the handler ran on (iface, changed_props). *)
prop_changed(iface, changed_props, c, d) ==
    IF iface # _INTERFACE
    THEN <<c, d>>
    ELSE LET c1 == IF "Connected" \in DOMAIN changed_props /\ changed_props["Connected"] = 1
                   THEN TRUE ELSE c
             d1 == IF "Connected" \in DOMAIN changed_props /\ changed_props["Connected"] = 0
                   THEN TRUE ELSE d
         IN <<c1, d1>>

\* What a notification says, read off the notification itself.
IsTrueChange(iface, props) ==
    iface = _INTERFACE /\ "Connected" \in DOMAIN props /\ props["Connected"] = 1
IsFalseChange(iface, props) ==
    iface = _INTERFACE /\ "Connected" \in DOMAIN props /\ props["Connected"] = 0

\* The running call has cleared its latch and its wait has not ended.
InCall == pc \in {"request", "wait", "waiting"}
\* The notification is the one the running call waits for.
Awaited(iface, props) ==
    \/ op = "connect" /\ IsTrueChange(iface, props)
    \/ op = "disconnect" /\ IsFalseChange(iface, props)

\* Mutant: the handler cannot run while the caller is blocked in wait (the
\* waiter keeps the event's lock).
Notify_BlockedByWait(iface, props) ==
    /\ subscribed
    /\ pc # "waiting"
    /\ connected' = prop_changed(iface, props, connected, disconnected)[1]
    /\ disconnected' = prop_changed(iface, props, connected, disconnected)[2]
    /\ seen' = (seen \/ (InCall /\ Awaited(iface, props)))
    /\ seenAfterRequest' =
          (seenAfterRequest \/ (pc \in {"wait", "waiting"} /\ Awaited(iface, props)))
    /\ noise' = (noise \/ (InCall /\ ~Awaited(iface, props)))
    /\ UNCHANGED <<loc, handle, op, pc, timeout_sec, elapsed, accepted, steps, result,
                   staleAtCall>>

\* Mutant: the handler is still called after the signal match was removed.
Notify_AfterRemove(iface, props) ==
    /\ connected' = prop_changed(iface, props, connected, disconnected)[1]
    /\ disconnected' = prop_changed(iface, props, connected, disconnected)[2]
    /\ seen' = (seen \/ (InCall /\ Awaited(iface, props)))
    /\ seenAfterRequest' =
          (seenAfterRequest \/ (pc \in {"wait", "waiting"} /\ Awaited(iface, props)))
    /\ noise' = (noise \/ (InCall /\ ~Awaited(iface, props)))
    /\ UNCHANGED <<loc, handle, op, pc, timeout_sec, elapsed, accepted, steps, result,
                   staleAtCall>>

\* A PropertiesChanged signal of the bus object reaches the handler, on the
\* dispatch thread, while the signal match is registered.
Notify(iface, props) ==
    /\ subscribed
    /\ connected' = prop_changed(iface, props, connected, disconnected)[1]
    /\ disconnected' = prop_changed(iface, props, connected, disconnected)[2]
    /\ seen' = (seen \/ (InCall /\ Awaited(iface, props)))
    /\ seenAfterRequest' =
          (seenAfterRequest \/ (pc \in {"wait", "waiting"} /\ Awaited(iface, props)))
    /\ noise' = (noise \/ (InCall /\ ~Awaited(iface, props)))
    /\ UNCHANGED <<loc, handle, op, pc, timeout_sec, elapsed, accepted, steps, result,
                   staleAtCall>>

----------------------------------------------------------------------------
(* Event.wait(timeout), as connect and disconnect use it. *)

\* On entry: returns at once when the flag is set or the timeout is zero,
\* otherwise blocks.
WaitEnter(flag, expired) ==
    /\ steps' = Append(steps, "wait")
    /\ IF flag
       THEN pc' = "done" /\ result' = Returned("None")
       ELSE IF timeout_sec = 0
            THEN pc' = "done" /\ result' = expired
            ELSE pc' = "waiting" /\ result' = result

\* The blocked waiter is woken by set() and wait returns True.
WaitWake(flag) ==
    /\ flag
    /\ pc' = "done"
    /\ result' = Returned("None")

\* Mutant: wait() is called without its timeout.
WaitTick_NoTimeout(flag, expired) ==
    /\ elapsed < timeout_sec
    /\ elapsed' = elapsed + 1
    /\ pc' = pc /\ result' = result

\* One second passes while blocked; the wait gives up, returning False, at the
\* second that completes the timeout with the flag still clear.
WaitTick(flag, expired) ==
    /\ elapsed < timeout_sec
    /\ elapsed' = elapsed + 1
    /\ IF ~flag /\ elapsed + 1 >= timeout_sec
       THEN pc' = "done" /\ result' = expired
       ELSE pc' = pc /\ result' = result

----------------------------------------------------------------------------
(* connect(timeout_sec) *)

\* Mutant: connect does not clear the event.
ConnectClear_NoClear(t) ==
    /\ pc = "idle"
    /\ op' = "connect"
    /\ pc' = "request"
    /\ timeout_sec' = t
    /\ steps' = <<"clear">>
    /\ staleAtCall' = connected
    /\ UNCHANGED <<loc, latches, handle, elapsed, accepted, result, seen,
                   seenAfterRequest, noise>>

\* Mutant: connect clears both events.
ConnectClear_ClearsBoth(t) ==
    /\ pc = "idle"
    /\ op' = "connect"
    /\ pc' = "request"
    /\ connected' = FALSE
    /\ disconnected' = FALSE
    /\ timeout_sec' = t
    /\ steps' = <<"clear">>
    /\ staleAtCall' = connected
    /\ UNCHANGED <<loc, handle, elapsed, accepted, result, seen, seenAfterRequest, noise>>

\* self._connected.clear()
ConnectClear(t) ==
    /\ pc = "idle"
    /\ op' = "connect"
    /\ pc' = "request"
    /\ connected' = FALSE
    /\ timeout_sec' = t
    /\ steps' = <<"clear">>
    /\ staleAtCall' = connected
    /\ UNCHANGED <<loc, disconnected, handle, elapsed, accepted, result, seen,
                   seenAfterRequest, noise>>

\* Mutant: Connect() is wrapped in the try/except of disconnect.
ConnectRequest_Except ==
    /\ op = "connect" /\ pc = "request"
    /\ steps' = Append(steps, "request")
    /\ \E ok \in BOOLEAN :
         IF ok
         THEN pc' = "wait" /\ accepted' = "yes" /\ result' = result
         ELSE pc' = "done" /\ accepted' = "no" /\ result' = Returned("None")
    /\ UNCHANGED <<loc, latches, handle, op, timeout_sec, elapsed, seen, seenAfterRequest,
                   noise, staleAtCall>>

\* self._device.Connect(): the bus accepts the request, or answers with an
\* error, which connect does not catch.
ConnectRequest ==
    /\ op = "connect" /\ pc = "request"
    /\ steps' = Append(steps, "request")
    /\ \E ok \in BOOLEAN :
         IF ok
         THEN pc' = "wait" /\ accepted' = "yes" /\ result' = result
         ELSE pc' = "done" /\ accepted' = "no" /\ result' = TransportFailure
    /\ UNCHANGED <<loc, latches, handle, op, timeout_sec, elapsed, seen, seenAfterRequest,
                   noise, staleAtCall>>

\* Mutant: the event is cleared after Connect() was issued, just before the wait.
ConnectWait_ClearAfterRequest ==
    /\ op = "connect" /\ pc = "wait"
    /\ connected' = FALSE
    /\ WaitEnter(FALSE, ConnectTimeout)
    /\ UNCHANGED <<loc, disconnected, handle, op, timeout_sec, elapsed, history>>

\* if not self._connected.wait(timeout_sec): raise RuntimeError(...)
ConnectWait ==
    /\ op = "connect" /\ pc = "wait"
    /\ WaitEnter(connected, ConnectTimeout)
    /\ UNCHANGED <<loc, latches, handle, op, timeout_sec, elapsed, history>>

ConnectWake ==
    /\ op = "connect" /\ pc = "waiting"
    /\ WaitWake(connected)
    /\ UNCHANGED <<loc, latches, handle, op, timeout_sec, elapsed, steps, history>>

ConnectTick ==
    /\ op = "connect" /\ pc = "waiting"
    /\ WaitTick(connected, ConnectTimeout)
    /\ UNCHANGED <<loc, latches, handle, op, timeout_sec, steps, history>>

----------------------------------------------------------------------------
(* disconnect(timeout_sec) *)

\* Mutant: disconnect clears the event of connect (a copy of line 83).
DisconnectClear_ClearsConnected(t) ==
    /\ pc = "idle"
    /\ op' = "disconnect"
    /\ pc' = "request"
    /\ connected' = FALSE
    /\ timeout_sec' = t
    /\ steps' = <<"clear">>
    /\ staleAtCall' = disconnected
    /\ UNCHANGED <<loc, disconnected, handle, elapsed, accepted, result, seen,
                   seenAfterRequest, noise>>

\* self._disconnected.clear()
DisconnectClear(t) ==
    /\ pc = "idle"
    /\ op' = "disconnect"
    /\ pc' = "request"
    /\ disconnected' = FALSE
    /\ timeout_sec' = t
    /\ steps' = <<"clear">>
    /\ staleAtCall' = disconnected
    /\ UNCHANGED <<loc, connected, handle, elapsed, accepted, result, seen,
                   seenAfterRequest, noise>>

\* Mutant: the DBusException of Disconnect() is not caught.
DisconnectRequest_NoExcept ==
    /\ op = "disconnect" /\ pc = "request"
    /\ steps' = Append(steps, "request")
    /\ \E ok \in BOOLEAN :
         IF ok
         THEN pc' = "wait" /\ accepted' = "yes" /\ result' = result
         ELSE pc' = "done" /\ accepted' = "no" /\ result' = TransportFailure
    /\ UNCHANGED <<loc, latches, handle, op, timeout_sec, elapsed, seen, seenAfterRequest,
                   noise, staleAtCall>>

\* self._device.Disconnect() inside try/except DBusException: an error is
\* logged and disconnect returns.
DisconnectRequest ==
    /\ op = "disconnect" /\ pc = "request"
    /\ steps' = Append(steps, "request")
    /\ \E ok \in BOOLEAN :
         IF ok
         THEN pc' = "wait" /\ accepted' = "yes" /\ result' = result
         ELSE pc' = "done" /\ accepted' = "no" /\ result' = Returned("None")
    /\ UNCHANGED <<loc, latches, handle, op, timeout_sec, elapsed, seen, seenAfterRequest,
                   noise, staleAtCall>>

\* if not self._disconnected.wait(timeout_sec): raise RuntimeError(...)
DisconnectWait ==
    /\ op = "disconnect" /\ pc = "wait"
    /\ WaitEnter(disconnected, DisconnectTimeout)
    /\ UNCHANGED <<loc, latches, handle, op, timeout_sec, elapsed, history>>

DisconnectWake ==
    /\ op = "disconnect" /\ pc = "waiting"
    /\ WaitWake(disconnected)
    /\ UNCHANGED <<loc, latches, handle, op, timeout_sec, elapsed, steps, history>>

DisconnectTick ==
    /\ op = "disconnect" /\ pc = "waiting"
    /\ WaitTick(disconnected, DisconnectTimeout)
    /\ UNCHANGED <<loc, latches, handle, op, timeout_sec, steps, history>>

----------------------------------------------------------------------------
\* No call is running: the locals of the getters and of discover do not exist.
NoLocals ==
    /\ prop = ""
    /\ attempts = 0
    /\ last_exception = "None"
    /\ errors = <<>>
    /\ readStatus = "none"
    /\ readVal = ""
    /\ keyPresent = FALSE
    /\ retval = <<>>
    /\ uuids = <<>>
    /\ expected_services = {}
    /\ expected_chars = {}
    /\ actual_services = {}
    /\ actual_chars = {}
    /\ polls = 0
    /\ delayed = 0
    /\ busServices = {}
    /\ busChars = {}
    /\ sleeps = 0

ResetLocals ==
    /\ prop' = ""
    /\ attempts' = 0
    /\ last_exception' = "None"
    /\ errors' = <<>>
    /\ readStatus' = "none"
    /\ readVal' = ""
    /\ keyPresent' = FALSE
    /\ retval' = <<>>
    /\ uuids' = <<>>
    /\ expected_services' = {}
    /\ expected_chars' = {}
    /\ actual_services' = {}
    /\ actual_chars' = {}
    /\ polls' = 0
    /\ delayed' = 0
    /\ busServices' = {}
    /\ busChars' = {}
    /\ sleeps' = 0

----------------------------------------------------------------------------
(* Property reads: self._props.Get(_INTERFACE, name) *)

DBUS_METHOD_ACCESS_TENTATIVE == 3
DBUS_METHOD_ACCESS_TIMEOUT == 1

\* Names of the DBusException a read can end with.
InvalidArgs == "org.freedesktop.DBus.Error.InvalidArgs"
ErrorNames == {InvalidArgs, "org.freedesktop.DBus.Error.UnknownObject",
               "org.freedesktop.DBus.Error.NoReply"}
\* Values of a scalar property, as the bus returns them.
Values == {"v1", "v2"}

Ok(v) == [status |-> "ok", val |-> v]
Err(e) == [status |-> e]
\* What one Get call can end with, for a property whose values are in vals.
Reads(vals) == {Ok(v) : v \in vals} \cup {Err(e) : e \in ErrorNames}

\* Every caller-side operation begins here.
Begin(name) ==
    /\ pc = "idle"
    /\ op' = name
    /\ UNCHANGED <<latches, subscribed, timeout_sec, elapsed, steps, history>>

(* _prop_get(name), behind id ('Address'), is_connected ('Connected') and
   _adapter ('Adapter') *)
_prop_get(name) ==
    /\ Begin("_prop_get")
    /\ pc' = "try"
    /\ prop' = name
    /\ UNCHANGED <<backup_rssi, lastRssi, result, attempts, last_exception, errors,
                   sleeps, readStatus, readVal, keyPresent, retval, uuids, disc>>

\* Mutant: only the first exception is kept.
PropGetTry_FirstException ==
    /\ op = "_prop_get" /\ pc = "try"
    /\ attempts' = attempts + 1
    /\ \E r \in Reads(Values) :
         /\ readStatus' = r.status
         /\ readVal' = IF r.status = "ok" THEN r.val ELSE ""
         /\ IF r.status = "ok"
            THEN /\ pc' = "done"
                 /\ result' = Returned(r.val)
                 /\ UNCHANGED <<last_exception, errors>>
            ELSE /\ pc' = "backoff"
                 /\ last_exception' =
                       IF last_exception = "None" THEN r.status ELSE last_exception
                 /\ errors' = Append(errors, r.status)
                 /\ result' = result
    /\ UNCHANGED <<latches, handle, op, timeout_sec, elapsed, steps, history, prop,
                   sleeps, keyPresent, retval, uuids, disc>>

\* One iteration of the loop up to the return or the except clause.
PropGetTry ==
    /\ op = "_prop_get" /\ pc = "try"
    /\ attempts' = attempts + 1
    /\ \E r \in Reads(Values) :
         /\ readStatus' = r.status
         /\ readVal' = IF r.status = "ok" THEN r.val ELSE ""
         /\ IF r.status = "ok"
            THEN /\ pc' = "done"
                 /\ result' = Returned(r.val)
                 /\ UNCHANGED <<last_exception, errors>>
            ELSE /\ pc' = "backoff"
                 /\ last_exception' = r.status
                 /\ errors' = Append(errors, r.status)
                 /\ result' = result
    /\ UNCHANGED <<latches, handle, op, timeout_sec, elapsed, steps, history, prop,
                   sleeps, keyPresent, retval, uuids, disc>>

\* time.sleep(DBUS_METHOD_ACCESS_TIMEOUT) in the except clause, then the next
\* iteration, or "raise last_exception" after the last one.
PropGetSleep ==
    /\ op = "_prop_get" /\ pc = "backoff"
    /\ sleeps' = sleeps + 1
    /\ elapsed' = elapsed + DBUS_METHOD_ACCESS_TIMEOUT
    /\ IF attempts < DBUS_METHOD_ACCESS_TENTATIVE
       THEN pc' = "try" /\ result' = result
       ELSE pc' = "done" /\ result' = Raised(last_exception)
    /\ UNCHANGED <<latches, handle, op, timeout_sec, steps, history, getter, disc>>

(* name: any failure of the read yields None *)
name ==
    /\ Begin("name")
    /\ pc' = "done"
    /\ \E r \in Reads(Values) :
         /\ readStatus' = r.status
         /\ readVal' = IF r.status = "ok" THEN r.val ELSE ""
         /\ result' = IF r.status = "ok" THEN Returned(r.val) ELSE Returned("None")
    /\ UNCHANGED <<backup_rssi, lastRssi, prop, attempts, last_exception, errors,
                   sleeps, keyPresent, retval, uuids, disc>>

(* rssi: the value read is kept in self.backup_rssi; the except clause returns
   self.backup_rssi, an attribute __init__ does not create *)
rssi ==
    /\ Begin("rssi")
    /\ pc' = "done"
    /\ \E r \in Reads(Values) :
         /\ readStatus' = r.status
         /\ readVal' = IF r.status = "ok" THEN r.val ELSE ""
         /\ IF r.status = "ok"
            THEN /\ backup_rssi' = <<r.val>>
                 /\ lastRssi' = <<r.val>>
                 /\ result' = Returned(r.val)
            ELSE /\ UNCHANGED <<backup_rssi, lastRssi>>
                 /\ result' = IF backup_rssi = <<>>
                              THEN Raised("AttributeError")
                              ELSE Returned(backup_rssi[1])
    /\ UNCHANGED <<prop, attempts, last_exception, errors, sleeps, keyPresent,
                   retval, uuids, disc>>

----------------------------------------------------------------------------
(* UUIDs.  The bus hands out strings; uuid.UUID(str(x)) turns the spellings of
   one UUID (upper and lower case) into the same value, and str(UUID) is the
   lower-case spelling. *)
UUIDs == 1..NumUUIDs
RawStrs == 1..(2 * NumUUIDs)
UUIDOf(raw) == (raw + 1) \div 2
StrOf(u) == 2 * u - 1
\* The 'UUIDs' property: a list of strings
RawLists == UNION {[1..n -> RawStrs] : n \in 0..MaxAdvertised}
Range(f) == {f[i] : i \in DOMAIN f}

\* Mutant: every error of the read is ignored, not only InvalidArgs.
advertised_of_IgnoreAnyError(r) ==
    LET raw == IF r.status = "ok" THEN r.val ELSE <<>>
    IN [kind |-> "return", err |-> "",
        list |-> [i \in 1..Len(raw) |-> UUIDOf(raw[i])]]

(* advertised: [kind |-> "return", list |-> ...] or [kind |-> "raise", err |-> ...]
   for a read of 'UUIDs' that ended as r *)
advertised_of(r) ==
    IF r.status # "ok" /\ r.status # InvalidArgs
    THEN [kind |-> "raise", err |-> r.status, list |-> <<>>]
    ELSE LET raw == IF r.status = "ok" THEN r.val ELSE <<>>
         IN [kind |-> "return", err |-> "",
             list |-> [i \in 1..Len(raw) |-> UUIDOf(raw[i])]]

advertised ==
    /\ Begin("advertised")
    /\ pc' = "done"
    /\ \E r \in Reads(RawLists) :
         /\ readStatus' = r.status
         /\ uuids' = IF r.status = "ok" THEN r.val ELSE <<>>
         /\ IF advertised_of(r).kind = "raise"
            THEN result' = Raised(advertised_of(r).err) /\ retval' = retval
            ELSE result' = Returned("list") /\ retval' = advertised_of(r).list
    /\ UNCHANGED <<backup_rssi, lastRssi, prop, attempts, last_exception, errors,
                   sleeps, readVal, keyPresent, disc>>

(* advertised_data(service_uuid) *)
\* The 'ServiceData' property: a dict from UUID strings to arrays of bytes
ByteArrays == {<<>>, <<7>>, <<7, 9>>}
ServiceDataMaps == UNION {[S -> ByteArrays] : S \in SUBSET RawStrs}
\* bytes([v]) for each v, concatenated
RECURSIVE bytestring(_)
bytestring(dbus_data) ==
    IF dbus_data = <<>> THEN <<>>
    ELSE <<Head(dbus_data)>> \o bytestring(Tail(dbus_data))

advertised_data(service_uuid) ==
    /\ Begin("advertised_data")
    /\ pc' = "done"
    /\ \E r \in Reads(ServiceDataMaps) :
         /\ readStatus' = r.status
         /\ IF r.status = "ok"
            THEN /\ keyPresent' = (StrOf(service_uuid) \in DOMAIN r.val)
                 /\ IF StrOf(service_uuid) \in DOMAIN r.val
                    THEN /\ result' = Returned("bytes")
                         /\ retval' = bytestring(r.val[StrOf(service_uuid)])
                    ELSE /\ result' = Raised("KeyError")
                         /\ retval' = retval
            ELSE /\ keyPresent' = keyPresent
                 /\ retval' = retval
                 /\ result' = IF r.status # InvalidArgs
                              THEN Raised(r.status)
                              ELSE Returned("None")
    /\ UNCHANGED <<backup_rssi, lastRssi, prop, attempts, last_exception, errors,
                   sleeps, readVal, uuids, disc>>

----------------------------------------------------------------------------
(* discover(service_uuids, char_uuids, timeout_sec) *)
POLL_INTERVAL == 1

\* expected_services = set(service_uuids); expected_chars = set(char_uuids);
\* start = time.time()
discover(service_uuids, char_uuids, t) ==
    /\ pc = "idle"
    /\ op' = "discover"
    /\ pc' = "poll"
    /\ expected_services' = service_uuids
    /\ expected_chars' = char_uuids
    /\ timeout_sec' = t
    /\ elapsed' = 0
    /\ UNCHANGED <<latches, handle, steps, result, history, getter, sleeps,
                   actual_services, actual_chars, polls, delayed, busServices,
                   busChars>>

\* Mutant: ">" (proper superset) in place of ">=".
Found_ProperSuperset(act_services, exp_services, act_chars, exp_chars) ==
    /\ exp_services \subseteq act_services /\ exp_services # act_services
    /\ exp_chars \subseteq act_chars /\ exp_chars # act_chars

\* The comparison of line 133.
Found(act_services, exp_services, act_chars, exp_chars) ==
    exp_services \subseteq act_services /\ exp_chars \subseteq act_chars

\* actual_services = set(self.advertised): the start of an iteration.  An
\* error of the read other than InvalidArgs leaves discover.
DiscoverAdvertised ==
    /\ op = "discover" /\ pc = "poll"
    /\ polls' = polls + 1
    /\ \E r \in Reads(RawLists) :
         /\ readStatus' = r.status
         /\ busServices' = IF r.status = "ok" THEN {UUIDOf(x) : x \in Range(r.val)} ELSE {}
         /\ IF advertised_of(r).kind = "raise"
            THEN /\ pc' = "done"
                 /\ result' = Raised(advertised_of(r).err)
                 /\ actual_services' = actual_services
            ELSE /\ pc' = "chars"
                 /\ result' = result
                 /\ actual_services' = Range(advertised_of(r).list)
    /\ UNCHANGED <<latches, handle, op, timeout_sec, elapsed, steps, history, prop,
                   attempts, last_exception, errors, sleeps, readVal, keyPresent,
                   retval, uuids, expected_services, expected_chars, actual_chars,
                   delayed, busChars>>

\* Mutant: the timeout is tested before the comparison.
DiscoverPoll_TimeoutFirst ==
    /\ op = "discover" /\ pc = "chars"
    /\ \E chars \in SUBSET UUIDs, d \in 0..MaxQueryDelay :
         /\ actual_chars' = chars
         /\ busChars' = chars
         /\ elapsed' = elapsed + d
         /\ delayed' = delayed + d
         /\ IF elapsed' >= timeout_sec
            THEN pc' = "done" /\ result' = Returned("False")
            ELSE IF Found(actual_services, expected_services, actual_chars',
                          expected_chars)
                 THEN pc' = "done" /\ result' = Returned("True")
                 ELSE pc' = "sleep" /\ result' = result
    /\ UNCHANGED <<latches, handle, op, timeout_sec, steps, history, getter, sleeps,
                   expected_services, expected_chars, actual_services, polls,
                   busServices>>

\* Mutant: the timeout test is ">" in place of ">=".
DiscoverPoll_StrictTimeout ==
    /\ op = "discover" /\ pc = "chars"
    /\ \E chars \in SUBSET UUIDs, d \in 0..MaxQueryDelay :
         /\ actual_chars' = chars
         /\ busChars' = chars
         /\ elapsed' = elapsed + d
         /\ delayed' = delayed + d
         /\ IF Found(actual_services, expected_services, actual_chars', expected_chars)
            THEN pc' = "done" /\ result' = Returned("True")
            ELSE IF elapsed' > timeout_sec
                 THEN pc' = "done" /\ result' = Returned("False")
                 ELSE pc' = "sleep" /\ result' = result
    /\ UNCHANGED <<latches, handle, op, timeout_sec, steps, history, getter, sleeps,
                   expected_services, expected_chars, actual_services, polls,
                   busServices>>

\* The rest of the iteration, up to a return or to the sleep: the
\* characteristics are enumerated (the queries may have taken time), the sets
\* are compared, then the clock is read.
DiscoverPoll ==
    /\ op = "discover" /\ pc = "chars"
    /\ \E chars \in SUBSET UUIDs, d \in 0..MaxQueryDelay :
         /\ actual_chars' = chars
         /\ busChars' = chars
         /\ elapsed' = elapsed + d
         /\ delayed' = delayed + d
         /\ IF Found(actual_services, expected_services, actual_chars', expected_chars)
            THEN pc' = "done" /\ result' = Returned("True")
            ELSE IF elapsed' >= timeout_sec
                 THEN pc' = "done" /\ result' = Returned("False")
                 ELSE pc' = "sleep" /\ result' = result
    /\ UNCHANGED <<latches, handle, op, timeout_sec, steps, history, getter, sleeps,
                   expected_services, expected_chars, actual_services, polls,
                   busServices>>

\* time.sleep(1); the next iteration computes both sets anew.
DiscoverSleep ==
    /\ op = "discover" /\ pc = "sleep"
    /\ pc' = "poll"
    /\ sleeps' = sleeps + 1
    /\ elapsed' = elapsed + POLL_INTERVAL
    /\ actual_services' = {}
    /\ actual_chars' = {}
    /\ UNCHANGED <<latches, handle, op, timeout_sec, steps, result, history, getter,
                   expected_services, expected_chars, polls, delayed, busServices,
                   busChars>>

----------------------------------------------------------------------------
(* close(): self._props._props_signal.remove() *)
Close ==
    /\ pc = "idle"
    /\ subscribed
    /\ subscribed' = FALSE
    /\ UNCHANGED <<loc, latches, backup_rssi, lastRssi, op, pc, timeout_sec, elapsed, steps,
                   result, history>>

\* The finished call's outcome has reached the caller, who may call again;
\* the call's locals are gone.
Return ==
    /\ pc = "done"
    /\ pc' = "idle"
    /\ op' = "none"
    /\ timeout_sec' = 0
    /\ elapsed' = 0
    /\ accepted' = "na"
    /\ steps' = <<>>
    /\ result' = NoResult
    /\ seen' = FALSE
    /\ seenAfterRequest' = FALSE
    /\ noise' = FALSE
    /\ staleAtCall' = FALSE
    /\ ResetLocals
    /\ UNCHANGED <<latches, handle>>

----------------------------------------------------------------------------
\* __init__: both events clear, the signal match registered, no backup_rssi
\* attribute; the caller is in no call.
Init ==
    /\ connected = FALSE
    /\ disconnected = FALSE
    /\ subscribed = TRUE
    /\ backup_rssi = <<>>
    /\ op = "none"
    /\ pc = "idle"
    /\ timeout_sec = 0
    /\ elapsed = 0
    /\ accepted = "na"
    /\ steps = <<>>
    /\ result = NoResult
    /\ seen = FALSE
    /\ seenAfterRequest = FALSE
    /\ noise = FALSE
    /\ staleAtCall = FALSE
    /\ lastRssi = <<>>
    /\ NoLocals

\* The connection state machine: connect, disconnect and close on the caller
\* thread, rssi reads between them, notifications at any time.
ConnNext ==
    \/ \E iface \in Interfaces, props \in ChangeSets : Notify(iface, props)
    \/ \E t \in Timeouts : ConnectClear(t)
    \/ ConnectRequest
    \/ ConnectWait
    \/ ConnectWake
    \/ ConnectTick
    \/ \E t \in Timeouts : DisconnectClear(t)
    \/ DisconnectRequest
    \/ DisconnectWait
    \/ DisconnectWake
    \/ DisconnectTick
    \/ rssi
    \/ Close
    \/ Return

\* The property accessors.
GetterNext ==
    \/ \E n \in {"Address", "Connected", "Adapter"} : _prop_get(n)
    \/ PropGetTry
    \/ PropGetSleep
    \/ name
    \/ rssi
    \/ advertised
    \/ \E u \in UUIDs : advertised_data(u)
    \/ Return

\* The discovery wait.
DiscoverNext ==
    \/ \E ss \in SUBSET UUIDs, cs \in SUBSET UUIDs, t \in Timeouts : discover(ss, cs, t)
    \/ DiscoverAdvertised
    \/ DiscoverPoll
    \/ DiscoverSleep
    \/ Return

\* The whole device handle.
Next ==
    \/ ConnNext
    \/ GetterNext
    \/ DiscoverNext

\* Normal operation: connect and disconnect calls whose request the bus
\* accepts and which return normally, and no notification but the one that
\* completes the running call, delivered after the call's request.
NormalNext ==
    \/ \E iface \in Interfaces, props \in ChangeSets :
          /\ pc \in {"wait", "waiting"} /\ Awaited(iface, props)
          /\ Notify(iface, props)
    \/ \E t \in Timeouts : ConnectClear(t)
    \/ ConnectRequest /\ accepted' = "yes"
    \/ ConnectWait /\ result'.kind # "raise"
    \/ ConnectWake
    \/ ConnectTick /\ result'.kind # "raise"
    \/ \E t \in Timeouts : DisconnectClear(t)
    \/ DisconnectRequest /\ accepted' = "yes"
    \/ DisconnectWait /\ result'.kind # "raise"
    \/ DisconnectWake
    \/ DisconnectTick /\ result'.kind # "raise"
    \/ Return

\* discover on a device that advertises at most one UUID, lists no
\* characteristic and answers its queries at once.
DiscoverOne ==
    \E ss \in SUBSET {1}, t \in Timeouts : discover(ss, {}, t)
DiscoverAdvertisedOne ==
    DiscoverAdvertised /\ busServices' \subseteq {1}
DiscoverPollNoChars ==
    DiscoverPoll /\ busChars' = {} /\ delayed' = delayed

\* The two threads: every operation of the caller thread, discover being
\* called on such a device, and the dispatch thread delivering notifications
\* at any time.
ThreadsNext ==
    \/ ConnNext
    \/ GetterNext
    \/ DiscoverOne
    \/ DiscoverAdvertisedOne
    \/ DiscoverPollNoChars
    \/ DiscoverSleep

Spec == Init /\ [][Next]_vars
ThreadsSpec == Init /\ [][ThreadsNext]_vars
NormalSpec == Init /\ [][NormalNext]_vars

\* Time advances and the caller thread is scheduled: a call that has begun
\* takes its next step, a blocked wait sees its seconds pass and its wake-up,
\* a sleep ends.  Nothing obliges the bus to deliver a notification, nor the
\* caller to begin a call.
CallerRuns ==
    /\ WF_vars(ConnectRequest) /\ WF_vars(ConnectWait)
    /\ WF_vars(ConnectWake) /\ WF_vars(ConnectTick)
    /\ WF_vars(DisconnectRequest) /\ WF_vars(DisconnectWait)
    /\ WF_vars(DisconnectWake) /\ WF_vars(DisconnectTick)
    /\ WF_vars(PropGetTry) /\ WF_vars(PropGetSleep)
    /\ WF_vars(DiscoverAdvertisedOne) /\ WF_vars(DiscoverPollNoChars)
    /\ WF_vars(DiscoverSleep)

FairSpec == Init /\ [][ThreadsNext]_vars /\ CallerRuns
ConnSpec == Init /\ [][ConnNext]_vars
GetterSpec == Init /\ [][GetterNext]_vars
DiscoverSpec == Init /\ [][DiscoverNext]_vars
----------------------------------------------------------------------------
(* Properties of connect, disconnect and the notification handler. *)

ConnectDone == op = "connect" /\ pc = "done"
DisconnectDone == op = "disconnect" /\ pc = "done"
IsPrefix(a, b) == Len(a) <= Len(b) /\ \A i \in 1..Len(a) : a[i] = b[i]

\* C1 as stated: connect returns normally if a Connected=true notification of
\* the device interface reached the handler after the clear and before the
\* wait timed out; in every other case it fails with ConnectTimeout, and only
\* once the timeout has elapsed.
C1_AsStated ==
    ConnectDone =>
        /\ seen => result = Returned("None")
        /\ ~seen => (result = ConnectTimeout /\ elapsed >= timeout_sec)

\* C1 amended: the same, provided the bus accepted the Connect request.
C1_ConnectOutcome ==
    (ConnectDone /\ accepted = "yes") =>
        /\ seen => result = Returned("None")
        /\ ~seen => (result = ConnectTimeout /\ elapsed >= timeout_sec)

\* A latch left set by an earlier cycle is cleared, the awaited notification
\* arrives while connect is blocked, and connect returns normally.
C1_Witness ==
    /\ ConnectDone /\ accepted = "yes" /\ staleAtCall /\ noise /\ seen
    /\ elapsed >= 1 /\ result = Returned("None")

\* C2: connect and disconnect clear the latch, then issue the request, then
\* wait, in that order; a notification delivered after the request was issued
\* (even before the wait began) is never lost, and a latch that was set when
\* the call began never satisfies the call's wait.
C2_ClearRequestWait ==
    (op \in {"connect", "disconnect"}) =>
        /\ IsPrefix(steps, <<"clear", "request", "wait">>)
        /\ (pc = "done" /\ seenAfterRequest) => result = Returned("None")
        /\ (pc = "done" /\ accepted = "yes" /\ staleAtCall /\ ~seen) => result.kind = "raise"

\* The awaited notification arrives between the request and the start of the
\* wait, in a call that began with its latch set; the wait returns at once.
C2_Witness ==
    /\ op \in {"connect", "disconnect"} /\ pc = "done"
    /\ staleAtCall /\ seenAfterRequest /\ elapsed = 0 /\ timeout_sec > 0
    /\ steps = <<"clear", "request", "wait">> /\ result = Returned("None")

\* C3: when the bus accepts the Disconnect request, disconnect returns normally
\* iff a Connected=false notification of the device interface reached the
\* handler after the clear and before the wait timed out; otherwise it fails
\* with DisconnectTimeout, and only once the timeout has elapsed.
C3_DisconnectOutcome ==
    (DisconnectDone /\ accepted = "yes") =>
        /\ (result = Returned("None")) <=> seen
        /\ ~seen => (result = DisconnectTimeout /\ elapsed >= timeout_sec)

\* Only Connected=true and foreign notifications arrive; disconnect times out.
C3_Witness ==
    /\ DisconnectDone /\ accepted = "yes" /\ noise /\ connected /\ ~seen
    /\ timeout_sec = MaxTimeout /\ result = DisconnectTimeout

\* The step in which Disconnect() is rejected.
DisconnectRejected ==
    op = "disconnect" /\ pc = "request" /\ pc' = "done" /\ accepted' = "no"

\* C4 as stated: when the bus rejects the Disconnect request, disconnect
\* returns normally at once, without having waited, and disconnected-signal is
\* clear.
C4_AsStated ==
    [][DisconnectRejected =>
          /\ result' = Returned("None")
          /\ steps' = <<"clear", "request">>
          /\ ~disconnected']_vars

\* C4 amended: ... and disconnected-signal is as the dispatch thread left it
\* since the clear: the call does not touch it again, so it is clear unless a
\* Connected=false notification arrived after the clear.
C4_RejectedDisconnect ==
    [][DisconnectRejected =>
          /\ result' = Returned("None")
          /\ steps' = <<"clear", "request">>
          /\ elapsed' = 0
          /\ disconnected' = disconnected
          /\ disconnected' = seen']_vars

\* A rejected disconnect has returned, with no notification since its clear.
C4_Witness ==
    /\ DisconnectDone /\ accepted = "no" /\ staleAtCall /\ ~seen /\ ~disconnected
    /\ result = Returned("None") /\ timeout_sec > 0

\* C5: the handler sets connected-signal exactly for a device-interface change
\* set with Connected=true, sets disconnected-signal exactly for one with
\* Connected=false, never clears a latch, and changes nothing else of the
\* device handle.
C5_HandlerFrame ==
    [][\A iface \in Interfaces, props \in ChangeSets :
          Notify(iface, props) =>
              /\ connected' = (connected \/ IsTrueChange(iface, props))
              /\ disconnected' = (disconnected \/ IsFalseChange(iface, props))
              /\ UNCHANGED <<subscribed, backup_rssi, op, pc, result>>]_vars

\* Both latches have been set by notifications while a call was blocked, and
\* notifications that set nothing have been delivered too.
C5_Witness ==
    connected /\ disconnected /\ noise /\ seen /\ pc = "waiting"
----------------------------------------------------------------------------
(* Properties of discover and of the property accessors. *)

\* What the bus reported at the latest poll covers what discover was asked for.
Satisfied == expected_services \subseteq busServices /\ expected_chars \subseteq busChars

PropGetDone == op = "_prop_get" /\ pc = "done"

\* C7: the retrying getter returns the value of the first successful read,
\* which is its last attempt; when every read fails it makes exactly
\* DBUS_METHOD_ACCESS_TENTATIVE attempts and raises the error of the last one.
C7_RetryingGetter ==
    (op = "_prop_get") =>
        /\ attempts <= DBUS_METHOD_ACCESS_TENTATIVE
        /\ (pc = "done" /\ result.kind = "return") =>
              /\ readStatus = "ok" /\ result.val = readVal
              /\ attempts = Len(errors) + 1
        /\ (pc = "done" /\ result.kind = "raise") =>
              /\ attempts = DBUS_METHOD_ACCESS_TENTATIVE
              /\ Len(errors) = DBUS_METHOD_ACCESS_TENTATIVE
              /\ result = Raised(errors[DBUS_METHOD_ACCESS_TENTATIVE])

\* Three reads failed, the first and the last with different errors.
C7_Witness ==
    /\ PropGetDone /\ result.kind = "raise"
    /\ Len(errors) = DBUS_METHOD_ACCESS_TENTATIVE
    /\ errors[1] # errors[DBUS_METHOD_ACCESS_TENTATIVE]

\* C8: the getter sleeps only between attempts: k times for k failed reads
\* followed by a success, and twice when all three reads fail.
C8_SleepsBetweenAttempts ==
    PropGetDone =>
        /\ result.kind = "return" => sleeps = Len(errors)
        /\ result.kind = "raise" => sleeps = DBUS_METHOD_ACCESS_TENTATIVE - 1

\* C9: rssi never raises; a failing read returns the value of the most recent
\* successful read, or None when there has been none.
C9_RssiFallback ==
    (op = "rssi" /\ pc = "done") =>
        /\ result.kind = "return"
        /\ readStatus # "ok" =>
              result = IF lastRssi = <<>> THEN Returned("None")
                       ELSE Returned(lastRssi[1])

\* C10: advertised_data returns None when ServiceData was read but has no entry
\* for the UUID, and when the read failed with InvalidArgs; it re-raises any
\* other failure of the read.
C10_AdvertisedDataAbsent ==
    (op = "advertised_data" /\ pc = "done") =>
        /\ (readStatus = "ok" /\ ~keyPresent) => result = Returned("None")
        /\ readStatus = InvalidArgs => result = Returned("None")
        /\ readStatus \notin {"ok", InvalidArgs} => result = Raised(readStatus)

\* C11: advertised returns an empty list, raising nothing, when the read of
\* 'UUIDs' fails with InvalidArgs; it re-raises any other error of the read;
\* when the read succeeds it returns one UUID per raw value, in the same order.
C11_Advertised ==
    (op = "advertised" /\ pc = "done") =>
        /\ readStatus = InvalidArgs => (result = Returned("list") /\ retval = <<>>)
        /\ readStatus \notin {"ok", InvalidArgs} => result = Raised(readStatus)
        /\ readStatus = "ok" =>
              /\ result = Returned("list")
              /\ Len(retval) = Len(uuids)
              /\ \A i \in 1..Len(uuids) : retval[i] = UUIDOf(uuids[i])

\* The read gave two spellings of one UUID: the list returned has that UUID
\* twice.
C11_Witness ==
    /\ op = "advertised" /\ pc = "done" /\ readStatus = "ok"
    /\ Len(uuids) = 2 /\ uuids[1] # uuids[2] /\ retval[1] = retval[2]

\* The poll's read of 'UUIDs' did not end in an error that discover passes on.
PollRead == readStatus \in {"ok", InvalidArgs}

\* C12: discover with both expectation sets empty returns true in its first
\* iteration and never sleeps, whatever the timeout and whatever the device
\* advertises and lists.
C12_EmptyExpectations ==
    (op = "discover" /\ expected_services = {} /\ expected_chars = {}) =>
        /\ sleeps = 0 /\ polls <= 1 /\ pc # "sleep"
        /\ (pc = "done" /\ PollRead) => (result = Returned("True") /\ polls = 1)
        /\ pc = "done" => result # Returned("False")

\* discover([], [], 0) has returned true on a device that has no 'UUIDs'
\* property and no characteristic.
C12_Witness ==
    /\ op = "discover" /\ pc = "done" /\ expected_services = {} /\ expected_chars = {}
    /\ timeout_sec = 0 /\ readStatus = InvalidArgs /\ busChars = {}
    /\ result = Returned("True")

C14_Subscription ==
    /\ subscribed = TRUE
    /\ [][/\ subscribed => \A iface \in Interfaces, props \in ChangeSets :
                              ENABLED Notify(iface, props)
          /\ subscribed' # subscribed =>
                /\ subscribed /\ ~subscribed'
                /\ pc = "idle"
                /\ UNCHANGED <<latches, op, pc, result>>
          /\ ~subscribed => ((connected' => connected) /\ (disconnected' => disconnected))
         ]_vars

\* A notification set connected-signal before close; a disconnect called
\* after close waited its whole timeout without its latch being set.
C14_Witness ==
    /\ ~subscribed /\ connected /\ ~disconnected
    /\ DisconnectDone /\ accepted = "yes" /\ timeout_sec > 0
    /\ result = DisconnectTimeout

\* C15: as the docstring of discover has it, discover raises when the
\* timeout is reached without the expected UUIDs having been found.
C15_TimeoutRaises ==
    (op = "discover" /\ pc = "done" /\ PollRead /\ ~Satisfied) => result.kind = "raise"

\* The step in which Connect() is rejected.
ConnectRejected ==
    op = "connect" /\ pc = "request" /\ pc' = "done" /\ accepted' = "no"

\* C20 as stated: when the bus rejects the Connect request, the transport
\* failure reaches the caller at once, connect has not waited and raises no
\* ConnectTimeout, and connected-signal is clear.
C20_AsStated ==
    [][ConnectRejected =>
          /\ result' = TransportFailure
          /\ steps' = <<"clear", "request">>
          /\ ~connected']_vars

\* C20 amended: ... and connected-signal is as the dispatch thread left it
\* since the clear: the call does not touch it again, so it is clear unless a
\* Connected=true notification arrived after the clear.
C20_RejectedConnect ==
    [][ConnectRejected =>
          /\ result' = TransportFailure
          /\ steps' = <<"clear", "request">>
          /\ elapsed' = 0
          /\ connected' = connected
          /\ connected' = seen']_vars

\* A rejected connect has raised the transport failure, with no notification
\* since its clear of a latch that was set before.
C20_Witness ==
    /\ ConnectDone /\ accepted = "no" /\ staleAtCall /\ ~seen /\ ~connected
    /\ result = TransportFailure /\ timeout_sec > 0

\* C18 as stated: in normal operation at most one of the two latches is set.
C18_AtMostOneSet == ~(connected /\ disconnected)

\* C18 amended: in normal operation a call changes its own latch only, which
\* is set when the call returns, and leaves the other latch as it was (so both
\* are set once a successful connect was followed by a successful disconnect).
C18_OwnLatchOnly ==
    [][/\ connected' # connected => (op' = "connect" /\ disconnected' = disconnected)
       /\ disconnected' # disconnected => (op' = "disconnect" /\ connected' = connected)
       /\ (op' = "connect" /\ pc' = "done") => connected'
       /\ (op' = "disconnect" /\ pc' = "done") => disconnected'
      ]_vars

\* A successful disconnect after a successful connect: both latches are set.
C18_Witness ==
    /\ DisconnectDone /\ result = Returned("None") /\ seen /\ ~staleAtCall
    /\ connected /\ disconnected
----------------------------------------------------------------------------
(* Properties of the device handle as a whole. *)

C19_LatchFrame ==
    [][/\ (connected /\ ~connected') =>
             (pc = "idle" /\ op' = "connect" /\ disconnected' = disconnected)
       /\ (disconnected /\ ~disconnected') =>
             (pc = "idle" /\ op' = "disconnect" /\ connected' = connected)
       /\ ((~connected /\ connected') \/ (~disconnected /\ disconnected')) =>
             UNCHANGED <<op, pc, subscribed, result, elapsed, sleeps, attempts, polls>>
      ]_vars

\* Both latches were set, the handle was closed and a retrying read has run:
\* both latches are still set.
C19_Witness ==
    /\ connected /\ disconnected /\ ~subscribed
    /\ PropGetDone /\ sleeps >= 1

\* The outcomes C16 lists.
StatedOutcome ==
    /\ op = "connect" =>
          (result \in {Returned("None"), ConnectTimeout} /\ elapsed <= timeout_sec)
    /\ op = "disconnect" =>
          /\ result \in {Returned("None"), DisconnectTimeout}
          /\ elapsed <= timeout_sec
          /\ accepted = "no" => (result = Returned("None") /\ elapsed = 0)
    /\ op = "discover" => result \in {Returned("True"), Returned("False")}
    /\ op = "_prop_get" =>
          (result.kind \in {"return", "raise"} /\ attempts <= DBUS_METHOD_ACCESS_TENTATIVE)

\* The same, with the errors of the bus that connect and discover pass on.
PassedOn ==
    \/ op = "connect" /\ accepted = "no" /\ result = TransportFailure /\ elapsed = 0
    \/ op = "discover" /\ ~PollRead /\ result = Raised(readStatus)

\* C16 as stated: every call that has begun ends, whatever notifications
\* arrive or fail to arrive: connect in success or ConnectTimeout, disconnect
\* in success, a swallowed rejection or DisconnectTimeout, waiting no longer
\* than its timeout, discover in true or false, the retrying getter in a value
\* or an error after at most DBUS_METHOD_ACCESS_TENTATIVE attempts.
C16_AsStated ==
    /\ (pc # "idle") ~> (pc = "done")
    /\ [](pc = "done" => StatedOutcome)

\* C16 amended: ... connect in success, ConnectTimeout or the transport
\* failure of a rejected request; discover in true, false or the error of a
\* failed read of 'UUIDs' other than InvalidArgs.
C16_Terminates ==
    /\ (pc # "idle") ~> (pc = "done")
    /\ [](pc = "done" => (StatedOutcome \/ PassedOn))

\* A connect with the longest timeout has ended in ConnectTimeout without a
\* single notification having been delivered since the handle was made.
C16_Witness ==
    /\ ConnectDone /\ result = ConnectTimeout /\ timeout_sec = MaxTimeout
    /\ elapsed = MaxTimeout /\ ~seen /\ ~noise /\ ~connected /\ ~disconnected
====
